---- MODULE Spec2Model ----
(***************************************************************************)
(* Model of aws/endpoints/v3model_codegen.go: the code generator that      *)
(* renders a decoded endpoints model (a Resolver: an ordered list of       *)
(* partitions) as Go source text.                                          *)
(*                                                                         *)
(* Go strings are TLA+ strings; a character is a string of length 1.       *)
(* Go maps are TLA+ functions whose DOMAIN is the key set.                 *)
(* The text written to the output writer is a sequence of fragments, one   *)
(* per template action or literal block, each tagged with the template     *)
(* site that produced it.                                                  *)
(***************************************************************************)
EXTENDS Integers, Sequences, FiniteSets, TLC

VARIABLES
    pc,        \* position of the running call
    arg,       \* argument of the helper function under call
    res,       \* sequence of values the helper calls returned
    resolver,  \* the decoded Resolver handed to the template
    opts,      \* CodeGenOptions
    idx,       \* index of the partition the template is ranging over
    run,       \* number of the CodeGenModel invocation (1 or 2; 0: none)
    out,       \* fragments written to outFile by the current invocation
    err,       \* error returned by the current invocation ("" is nil)
    prevOut,   \* fragments written by the previous invocation
    prevErr    \* error returned by the previous invocation

vars == <<pc, arg, res, resolver, opts, idx, run, out, err, prevOut, prevErr>>
genVars == <<resolver, opts, idx, run, out, err, prevOut, prevErr>>

(***************************************************************************)
(* Bounds of the model.                                                    *)
(***************************************************************************)
MaxLen == 3          \* longest raw identifier given to toSymbol
MaxVariant == 8      \* largest endpointVariant value tried
MaxNames == 4        \* longest partition list given to listPartitionNames
MaxPartitions == 2   \* longest Resolver rendered
MaxSeed == 5         \* map iteration seeds 0..MaxSeed (all orders of 3 keys)

(***************************************************************************)
(* Characters (package unicode): printable ASCII without the backquote,    *)
(* the control characters \t, \n, \f and \r, and, beyond ASCII, the space   *)
(* U+00A0 and the letter U+00E9 with its upper case U+00C9.                *)
(***************************************************************************)
LowerLetters == "abcdefghijklmnopqrstuvwxyzé"
UpperLetters == "ABCDEFGHIJKLMNOPQRSTUVWXYZÉ"
Digits == "0123456789"
\* The no-break space U+00A0.
NoBreakSpace == " "
\* The ASCII characters of the model (r <= 0x7F), in byte order.
AsciiOrder ==
    "\t\n\f\r !\"#$%&'()*+,-./0123456789:;<=>?@ABCDEFGHIJKLMNOPQRSTUVWXYZ[\\]^_abcdefghijklmnopqrstuvwxyz{|}~"
\* The characters of the model in the order of their UTF-8 bytes.
ByteOrder == AsciiOrder \o NoBreakSpace \o "Éé"

CharAt(s, i) == SubSeq(s, i, i)
CharsOf(s) == {CharAt(s, i) : i \in 1..Len(s)}
IndexIn(c, s) == CHOOSE i \in 1..Len(s) : CharAt(s, i) = c
CodeOf == [c \in CharsOf(ByteOrder) |-> IndexIn(c, ByteOrder)]
Code(c) == CodeOf[c]

LowerSet == CharsOf(LowerLetters)
UpperSet == CharsOf(UpperLetters)
DigitSet == CharsOf(Digits)
AsciiSet == CharsOf(AsciiOrder)
UpperOf == [c \in LowerSet |-> CharAt(UpperLetters, IndexIn(c, LowerLetters))]
LowerOf == [c \in UpperSet |-> CharAt(LowerLetters, IndexIn(c, UpperLetters))]

IsLower(c) == c \in LowerSet
IsUpper(c) == c \in UpperSet
IsLetter(c) == IsLower(c) \/ IsUpper(c)
IsDigit(c) == c \in DigitSet
IsNumber(c) == IsDigit(c)
IsSpace(c) == c \in {"\t", "\n", "\f", "\r", " ", NoBreakSpace}
ToTitleRune(c) == IF IsLower(c) THEN UpperOf[c] ELSE c
ToLowerRune(c) == IF IsUpper(c) THEN LowerOf[c] ELSE c

\* strings.isSeparator: of the ASCII characters (control characters
\* included) only alphanumerics and underscore are not separators; beyond ASCII, letters and digits are not, and of the rest
\* only spaces are.
isSeparator(c) ==
    IF c \in AsciiSet
    THEN ~(IsDigit(c) \/ IsLetter(c) \/ c = "_")
    ELSE IF IsLetter(c) \/ IsDigit(c) THEN FALSE ELSE IsSpace(c)

RECURSIVE TitleFrom(_, _, _)
TitleFrom(s, i, prev) ==
    IF i > Len(s) THEN ""
    ELSE LET r == CharAt(s, i)
         IN (IF isSeparator(prev) THEN ToTitleRune(r) ELSE r) \o TitleFrom(s, i + 1, r)

\* strings.Title: upper-cases each rune that follows a separator; prev starts as ' '.
Title(s) == TitleFrom(s, 1, " ")

RECURSIVE ToLower(_)
ToLower(s) == IF s = "" THEN "" ELSE ToLowerRune(Head(s)) \o ToLower(Tail(s))

\* strconv.Quote, as fmt's %q applies it: the quote and the backslash get a
\* backslash, a control character becomes its escape (of the control
\* characters, strings here hold only \n, \t, \r and \f), a character that is
\* not printable becomes \uXXXX (here U+00A0), and every printable character,
\* ASCII or not, is copied.
RECURSIVE Escape(_)
Escape(s) ==
    IF s = "" THEN ""
    ELSE LET c == Head(s)
         IN (IF c = "\"" THEN "\\\""
             ELSE IF c = "\\" THEN "\\\\"
             ELSE IF c = "\n" THEN "\\n"
             ELSE IF c = "\t" THEN "\\t"
             ELSE IF c = "\r" THEN "\\r"
             ELSE IF c = "\f" THEN "\\f"
             ELSE IF c = NoBreakSpace THEN "\\u00a0"
             ELSE c) \o Escape(Tail(s))

Quote(s) == "\"" \o Escape(s) \o "\""

\* fmt.Sprintf(msg, v) for a msg holding one verb, %q or %s.
Sprintf(msg, v) ==
    LET p == IndexIn("%", msg)
        verb == CharAt(msg, p + 1)
    IN SubSeq(msg, 1, p - 1)
         \o (IF verb = "q" THEN Quote(v) ELSE v)
         \o SubSeq(msg, p + 2, Len(msg))

\* fmt.Sprintf(msg, v1, v2) for a msg holding two verbs.
Sprintf2(msg, v1, v2) ==
    LET p == IndexIn("%", msg)
        verb == CharAt(msg, p + 1)
    IN SubSeq(msg, 1, p - 1)
         \o (IF verb = "q" THEN Quote(v1) ELSE v1)
         \o Sprintf(SubSeq(msg, p + 2, Len(msg)), v2)

(***************************************************************************)
(* Symbol synthesis.                                                       *)
(***************************************************************************)
RECURSIVE toSymbolLoop(_, _, _)
toSymbolLoop(t, i, acc) ==
    IF i > Len(t) THEN acc
    ELSE LET c == CharAt(t, i)
         IN IF ~(IsNumber(c) \/ IsLetter(c))
            THEN toSymbolLoop(t, i + 1, acc)
            ELSE toSymbolLoop(t, i + 1, acc \o c)

\* A toSymbol that ranges over v itself instead of strings.Title(v).
toSymbolNoTitle(v) == toSymbolLoop(v, 1, "")

toSymbol(v) == toSymbolLoop(Title(v), 1, "")

quoteString(v) == Sprintf("%q", v)

regionConstName(p, r) == toSymbol(p) \o toSymbol(r)

partitionGetter(id) == Sprintf("%sPartition", toSymbol(id))

\* A partitionVarName that lower-cases the whole getter name.
partitionVarNameLowerAll(id) == ToLower(Sprintf("%sPartition", toSymbol(id)))

partitionVarName(id) == Sprintf("%sPartition", ToLower(toSymbol(id)))

(***************************************************************************)
(* Helper calls on raw identifiers.                                        *)
(***************************************************************************)
Alphabet == {"a", "Z", "1", "_", "-", ".", "\r", "é"}

RECURSIVE StringsUpTo(_)
StringsUpTo(n) ==
    IF n = 0 THEN {""}
    ELSE LET shorter == StringsUpTo(n - 1)
         IN shorter \cup {s \o c : s \in {t \in shorter : Len(t) = n - 1}, c \in Alphabet}

IdleGen ==
    /\ resolver = <<>>
    /\ opts = [DisableGenerateServiceIDs |-> FALSE]
    /\ idx = 0
    /\ run = 0
    /\ out = <<>>
    /\ err = ""
    /\ prevOut = <<>>
    /\ prevErr = ""

InitSymbol ==
    /\ pc = "toSymbol"
    /\ arg \in StringsUpTo(MaxLen)
    /\ res = <<>>
    /\ IdleGen

CallToSymbol ==
    /\ pc = "toSymbol"
    /\ Len(res) = 0
    /\ res' = <<toSymbol(arg)>>
    /\ UNCHANGED <<pc, arg, genVars>>

\* toSymbol applied to its own result.
CallToSymbolAgain ==
    /\ pc = "toSymbol"
    /\ Len(res) = 1
    /\ res' = <<res[1], toSymbol(res[1])>>
    /\ UNCHANGED <<pc, arg, genVars>>

NextSymbol == CallToSymbol \/ CallToSymbolAgain

SpecSymbol == InitSymbol /\ [][NextSymbol]_vars

\* C2: toSymbol is idempotent: applying it to its own result changes nothing.
ToSymbolIdempotent == (pc = "toSymbol" /\ Len(res) = 2) => res[2] = res[1]

\* C3, as stated: the result of toSymbol matches ^[A-Za-z0-9]*$.
AsciiAlnum == CharsOf("ABCDEFGHIJKLMNOPQRSTUVWXYZabcdefghijklmnopqrstuvwxyz0123456789")
ToSymbolMatchesAsciiAlnum ==
    (pc = "toSymbol" /\ Len(res) >= 1) =>
        \A i \in 1..Len(res[1]) : CharAt(res[1], i) \in AsciiAlnum

\* C3, amended: the result of toSymbol holds only letters and digits (of any
\* script; of ^[A-Za-z0-9]*$ when the input is ASCII), and is exactly the
\* letters and digits of the title-cased input, in their order; an input
\* without letters and digits gives the empty string.
KeptPositions(t) == {i \in 1..Len(t) : IsLetter(CharAt(t, i)) \/ IsNumber(CharAt(t, i))}
NthKept(t, j) == CHOOSE i \in KeptPositions(t) : Cardinality({k \in KeptPositions(t) : k < i}) = j - 1
ToSymbolKeepsLettersAndDigits ==
    (pc = "toSymbol" /\ Len(res) >= 1) =>
        LET t == Title(arg)
            s == res[1]
        IN /\ \A i \in 1..Len(s) : IsLetter(CharAt(s, i)) \/ IsNumber(CharAt(s, i))
           /\ Len(s) = Cardinality(KeptPositions(t))
           /\ \A j \in 1..Len(s) : CharAt(s, j) = CharAt(t, NthKept(t, j))
           /\ (\A i \in 1..Len(arg) : CharAt(arg, i) \in {"_", "-", "."}) => s = ""
           /\ (\A i \in 1..Len(arg) : CharAt(arg, i) \in AsciiSet) =>
                  \A i \in 1..Len(s) : CharAt(s, i) \in AsciiAlnum

WitnessToSymbolDrops ==
    /\ pc = "toSymbol"
    /\ arg = "a-1"
    /\ res = <<"A1">>


(***************************************************************************)
(* Variant codec and key setters.                                          *)
(***************************************************************************)
\* The endpointVariant flags: FIPS, then dual-stack.
fipsVariant == 1
dualStackVariant == 2

RECURSIVE BitAnd(_, _)
BitAnd(a, b) ==
    IF a = 0 \/ b = 0 THEN 0
    ELSE (a % 2) * (b % 2) + 2 * BitAnd(a \div 2, b \div 2)

RECURSIVE BitOr(_, _)
BitOr(a, b) ==
    IF a = 0 THEN b
    ELSE IF b = 0 THEN a
    ELSE (IF a % 2 = 1 \/ b % 2 = 1 THEN 1 ELSE 0) + 2 * BitOr(a \div 2, b \div 2)

\* strings.Join
RECURSIVE Join(_, _)
Join(elems, sep) ==
    IF Len(elems) = 0 THEN ""
    ELSE IF Len(elems) = 1 THEN elems[1]
    ELSE elems[1] \o sep \o Join(Tail(elems), sep)

Ok(s) == [s |-> s, err |-> ""]
Errorf(msg) == [s |-> "", err |-> msg]

\* An endpointVariantSetter that appends the dual-stack symbol first.
endpointVariantSetterSwapped(variant) ==
    IF variant = 0 THEN Ok("0")
    ELSE IF variant > BitOr(fipsVariant, dualStackVariant)
    THEN Errorf("unknown endpoint variant")
    ELSE LET s1 == IF BitAnd(variant, dualStackVariant) # 0 THEN <<"dualStackVariant">> ELSE <<>>
             s2 == IF BitAnd(variant, fipsVariant) # 0 THEN s1 \o <<"fipsVariant">> ELSE s1
         IN Ok(Join(s2, "|"))

endpointVariantSetter(variant) ==
    IF variant = 0 THEN Ok("0")
    ELSE IF variant > BitOr(fipsVariant, dualStackVariant)
    THEN Errorf("unknown endpoint variant")
    ELSE LET s1 == IF BitAnd(variant, fipsVariant) # 0 THEN <<"fipsVariant">> ELSE <<>>
             symbols == IF BitAnd(variant, dualStackVariant) # 0
                        THEN s1 \o <<"dualStackVariant">> ELSE s1
         IN Ok(Join(symbols, "|"))

\* An endpointKeySetter that drops the error of the variant setter and
\* leaves the Variant line out.
endpointKeySetterSkipsUnknown(e) ==
    LET head == "endpointKey{\n" \o Sprintf("Region: %q,\n", e.Region)
        variantSetter == endpointVariantSetter(e.Variant)
    IN IF e.Variant # 0 /\ variantSetter.err = ""
       THEN Ok(head \o Sprintf("Variant: %s,\n", variantSetter.s) \o "}")
       ELSE Ok(head \o "}")

endpointKeySetter(e) ==
    LET head == "endpointKey{\n" \o Sprintf("Region: %q,\n", e.Region)
    IN IF e.Variant # 0
       THEN LET variantSetter == endpointVariantSetter(e.Variant)
            IN IF variantSetter.err # "" THEN Errorf(variantSetter.err)
               ELSE Ok(head \o Sprintf("Variant: %s,\n", variantSetter.s) \o "}")
       ELSE Ok(head \o "}")

defaultKeySetter(e) ==
    LET head == "defaultKey{\n"
    IN IF e.Variant # 0
       THEN LET variantSetter == endpointVariantSetter(e.Variant)
            IN IF variantSetter.err # "" THEN Errorf(variantSetter.err)
               ELSE Ok(head \o Sprintf("Variant: %s,\n", variantSetter.s) \o "}")
       ELSE Ok(head \o "}")

KeyRegions == {"", "us-east-1", "aws-global", "cn-north-1"}

InitKeys ==
    /\ pc = "keys"
    /\ arg \in [Region : KeyRegions, Variant : 0..MaxVariant]
    /\ res = <<>>
    /\ IdleGen

CallEndpointVariantSetter ==
    /\ pc = "keys"
    /\ Len(res) = 0
    /\ res' = <<[fn |-> "endpointVariantSetter", ret |-> endpointVariantSetter(arg.Variant)]>>
    /\ UNCHANGED <<pc, arg, genVars>>

CallEndpointKeySetter ==
    /\ pc = "keys"
    /\ Len(res) = 0
    /\ res' = <<[fn |-> "endpointKeySetter", ret |-> endpointKeySetter(arg)]>>
    /\ UNCHANGED <<pc, arg, genVars>>

CallDefaultKeySetter ==
    /\ pc = "keys"
    /\ Len(res) = 0
    /\ res' = <<[fn |-> "defaultKeySetter", ret |-> defaultKeySetter([Variant |-> arg.Variant])]>>
    /\ UNCHANGED <<pc, arg, genVars>>

NextKeys == CallEndpointVariantSetter \/ CallEndpointKeySetter \/ CallDefaultKeySetter

SpecKeys == InitKeys /\ [][NextKeys]_vars

\* C1: endpointVariantSetter returns "0", "fipsVariant", "dualStackVariant"
\* and "fipsVariant|dualStackVariant" for the variants 0, 1, 2 and 3, without
\* an error, and the unknown-variant error with no text for 4 and above.
VariantSetterTable ==
    (pc = "keys" /\ Len(res) = 1 /\ res[1].fn = "endpointVariantSetter") =>
        LET v == arg.Variant
            r == res[1].ret
        IN /\ v = 0 => r = [s |-> "0", err |-> ""]
           /\ v = 1 => r = [s |-> "fipsVariant", err |-> ""]
           /\ v = 2 => r = [s |-> "dualStackVariant", err |-> ""]
           /\ v = 3 => r = [s |-> "fipsVariant|dualStackVariant", err |-> ""]
           /\ v >= 4 => r = [s |-> "", err |-> "unknown endpoint variant"]

WitnessVariantBoth ==
    /\ pc = "keys"
    /\ arg.Variant = 3
    /\ res = <<[fn |-> "endpointVariantSetter",
                ret |-> [s |-> "fipsVariant|dualStackVariant", err |-> ""]]>>

(***************************************************************************)
(* Partition name list.                                                    *)
(***************************************************************************)
\* A listPartitionNames that joins three or more names like two: no comma
\* before the final "and".
listPartitionNamesNoComma(ps) ==
    IF Len(ps) = 1 THEN ps[1].Name
    ELSE IF Len(ps) = 2 THEN Sprintf2("%s and %s", ps[1].Name, ps[2].Name)
    ELSE IF Len(ps) = 0 THEN ""
    ELSE Join([i \in 1..(Len(ps) - 1) |-> ps[i].Name], ", ") \o " and " \o ps[Len(ps)].Name

listPartitionNames(ps) ==
    IF Len(ps) = 1 THEN ps[1].Name
    ELSE IF Len(ps) = 2 THEN Sprintf2("%s and %s", ps[1].Name, ps[2].Name)
    ELSE LET names == [i \in 1..Len(ps) |->
                          IF i = Len(ps) THEN "and " \o ps[i].Name ELSE ps[i].Name]
         IN Join(names, ", ")

PartitionNames == {"AWS Standard", "AWS China", "AWS ISO (US)"}

RECURSIVE SeqsUpTo(_, _)
SeqsUpTo(S, n) ==
    IF n = 0 THEN {<<>>}
    ELSE LET shorter == SeqsUpTo(S, n - 1)
         IN shorter \cup {Append(q, x) : q \in {t \in shorter : Len(t) = n - 1}, x \in S}

InitNames ==
    /\ pc = "listPartitionNames"
    /\ arg \in SeqsUpTo([Name : PartitionNames], MaxNames)
    /\ res = <<>>
    /\ IdleGen

CallListPartitionNames ==
    /\ pc = "listPartitionNames"
    /\ Len(res) = 0
    /\ res' = <<listPartitionNames(arg)>>
    /\ UNCHANGED <<pc, arg, genVars>>

NextNames == CallListPartitionNames

SpecNames == InitNames /\ [][NextNames]_vars

\* C5: listPartitionNames gives the single name for one partition, "A and B"
\* for two, and for three or more every name in input order, each followed
\* by ", " except the last, which is prefixed by "and ".
RECURSIVE NamesFrom(_, _)
NamesFrom(ps, i) ==
    IF i = Len(ps) THEN "and " \o ps[i].Name
    ELSE ps[i].Name \o ", " \o NamesFrom(ps, i + 1)
ListPartitionNamesGrammar ==
    (pc = "listPartitionNames" /\ Len(res) = 1) =>
        LET n == Len(arg)
        IN /\ n = 1 => res[1] = arg[1].Name
           /\ n = 2 => res[1] = arg[1].Name \o " and " \o arg[2].Name
           /\ n = 3 => res[1] = arg[1].Name \o ", " \o arg[2].Name \o ", and " \o arg[3].Name
           /\ n >= 3 => res[1] = NamesFrom(arg, 1)

WitnessThreeNames ==
    /\ pc = "listPartitionNames"
    /\ Len(arg) = 3
    /\ res = <<"AWS Standard, AWS China, and AWS ISO (US)">>

(***************************************************************************)
(* Optional-field emitters and the Endpoint literal.                       *)
(***************************************************************************)
\* The values of boxedBool.
boxedBoolUnset == "boxedBoolUnset"
boxedFalse == "boxedFalse"
boxedTrue == "boxedTrue"

\* A boxedBoolIfSet that treats an explicit false like unset.
boxedBoolIfSetDropsFalse(msg, v) ==
    IF v = boxedTrue THEN Sprintf(msg, "boxedTrue") ELSE ""

boxedBoolIfSet(msg, v) ==
    IF v = boxedTrue THEN Sprintf(msg, "boxedTrue")
    ELSE IF v = boxedFalse THEN Sprintf(msg, "boxedFalse")
    ELSE ""

stringIfSet(msg, v) == IF Len(v) = 0 THEN "" ELSE Sprintf(msg, v)

stringSliceIfSet(msg, vs) ==
    IF Len(vs) = 0 THEN ""
    ELSE LET names == [i \in 1..Len(vs) |-> "\"" \o vs[i] \o "\""]
         IN Sprintf(msg, Join(names, ","))

\* The zero value of endpoint.
ZeroEndpoint ==
    [Hostname |-> "", DNSSuffix |-> "", SSLCommonName |-> "",
     Protocols |-> <<>>, SignatureVersions |-> <<>>,
     CredentialScope |-> [Region |-> "", Service |-> ""],
     Deprecated |-> boxedBoolUnset]

\* What a template action or literal block writes: nothing for empty text.
Frag(site, text) == IF text = "" THEN <<>> ELSE <<[site |-> site, text |-> text]>>

\* {{ define "gocode Endpoint" }}
gocodeEndpoint(e) ==
    Frag("endpoint{", "endpoint{\n")
    \o Frag("Hostname", stringIfSet("Hostname: %q,\n", e.Hostname))
    \o Frag("DNSSuffix", stringIfSet("DNSSuffix: %q,\n", e.DNSSuffix))
    \o Frag("SSLCommonName", stringIfSet("SSLCommonName: %q,\n", e.SSLCommonName))
    \o Frag("Protocols", stringSliceIfSet("Protocols: []string{%s},\n", e.Protocols))
    \o Frag("SignatureVersions",
            stringSliceIfSet("SignatureVersions: []string{%s},\n", e.SignatureVersions))
    \o (IF e.CredentialScope.Region # "" \/ e.CredentialScope.Service # ""
        THEN Frag("CredentialScope{", "CredentialScope: credentialScope{\n")
             \o Frag("CredentialScope.Region",
                     stringIfSet("Region: %q,\n", e.CredentialScope.Region))
             \o Frag("CredentialScope.Service",
                     stringIfSet("Service: %q,\n", e.CredentialScope.Service))
             \o Frag("CredentialScope}", "},")
        ELSE <<>>)
    \o Frag("Deprecated", boxedBoolIfSet("Deprecated: %s,\n", e.Deprecated))
    \o Frag("endpoint}", "}")

Endpoints ==
    [Hostname : {"", "{service}.{region}.{dnsSuffix}"},
     DNSSuffix : {"", "amazonaws.com"},
     SSLCommonName : {"", "s3.amazonaws.com"},
     Protocols : {<<>>, <<"https">>, <<"http", "https">>},
     SignatureVersions : {<<>>, <<"v4">>, <<"s3", "v4">>},
     CredentialScope : [Region : {"", "us-east-1"}, Service : {"", "s3"}],
     Deprecated : {boxedBoolUnset, boxedFalse, boxedTrue}]

InitEndpoint ==
    /\ pc = "gocode Endpoint"
    /\ arg \in Endpoints
    /\ res = <<>>
    /\ IdleGen

RenderEndpoint ==
    /\ pc = "gocode Endpoint"
    /\ Len(res) = 0
    /\ res' = <<[fn |-> "gocode Endpoint", ret |-> gocodeEndpoint(arg)]>>
    /\ UNCHANGED <<pc, arg, genVars>>

NextEndpoint == RenderEndpoint

SpecEndpoint == InitEndpoint /\ [][NextEndpoint]_vars

\* C9: in a rendered Endpoint literal the fragment of each optional field is
\* there if and only if the field is set; Deprecated is rendered as boxedTrue
\* or boxedFalse; an Endpoint with no optional field set renders none of them.
SitesOf(frags) == {frags[i].site : i \in 1..Len(frags)}
TextAt(frags, site) == (CHOOSE f \in {frags[i] : i \in 1..Len(frags)} : f.site = site).text
OptionalSites ==
    {"Hostname", "DNSSuffix", "SSLCommonName", "Protocols", "SignatureVersions",
     "CredentialScope{", "CredentialScope.Region", "CredentialScope.Service",
     "CredentialScope}", "Deprecated"}
OptionalFieldsIffSet ==
    (pc = "gocode Endpoint" /\ Len(res) = 1 /\ res[1].fn = "gocode Endpoint") =>
        LET frags == res[1].ret
            sites == SitesOf(frags)
            scope == arg.CredentialScope
        IN /\ ("Hostname" \in sites) <=> (arg.Hostname # "")
           /\ ("DNSSuffix" \in sites) <=> (arg.DNSSuffix # "")
           /\ ("SSLCommonName" \in sites) <=> (arg.SSLCommonName # "")
           /\ ("Protocols" \in sites) <=> (arg.Protocols # <<>>)
           /\ ("SignatureVersions" \in sites) <=> (arg.SignatureVersions # <<>>)
           /\ ("CredentialScope{" \in sites) <=> (scope.Region # "" \/ scope.Service # "")
           /\ ("CredentialScope.Region" \in sites) <=> (scope.Region # "")
           /\ ("CredentialScope.Service" \in sites) <=> (scope.Service # "")
           /\ ("Deprecated" \in sites) <=> (arg.Deprecated # boxedBoolUnset)
           /\ arg.Deprecated = boxedTrue =>
                  TextAt(frags, "Deprecated") = "Deprecated: boxedTrue,\n"
           /\ arg.Deprecated = boxedFalse =>
                  TextAt(frags, "Deprecated") = "Deprecated: boxedFalse,\n"
           /\ arg = ZeroEndpoint => sites \cap OptionalSites = {}
           /\ Len(frags) = Cardinality(sites)

WitnessEndpointExplicitFalse ==
    /\ pc = "gocode Endpoint"
    /\ arg.Deprecated = boxedFalse
    /\ arg.Hostname = ""
    /\ arg.Protocols = <<"http", "https">>
    /\ Len(res) = 1
    /\ res[1].fn = "gocode Endpoint"
    /\ "Deprecated" \in SitesOf(res[1].ret)
    /\ TextAt(res[1].ret, "Protocols") = "Protocols: []string{\"http\",\"https\"},\n"

(***************************************************************************)
(* Map iteration.                                                          *)
(***************************************************************************)
\* Byte-wise order of strings.
RECURSIVE StrLess(_, _)
StrLess(a, b) ==
    IF b = "" THEN FALSE
    ELSE IF a = "" THEN TRUE
    ELSE IF Head(a) = Head(b) THEN StrLess(Tail(a), Tail(b))
    ELSE Code(Head(a)) < Code(Head(b))

\* Order of endpointKey structs: field by field, Region then Variant.
EndpointKeyLess(a, b) ==
    \/ StrLess(a.Region, b.Region)
    \/ a.Region = b.Region /\ a.Variant < b.Variant

DefaultKeyLess(a, b) == a.Variant < b.Variant

\* The strings of S in ascending order.
SortStrings(S) ==
    [i \in 1..Cardinality(S) |->
        CHOOSE x \in S : Cardinality({y \in S : StrLess(y, x)}) = i - 1]

RemoveAt(q, i) == SubSeq(q, 1, i - 1) \o SubSeq(q, i + 1, Len(q))

RECURSIVE Permute(_, _)
Permute(q, seed) ==
    IF Len(q) = 0 THEN <<>>
    ELSE LET i == (seed % Len(q)) + 1
         IN <<q[i]>> \o Permute(RemoveAt(q, i), seed \div Len(q))

\* The order in which Go's range statement visits the keys of a map: any
\* order, picked by the runtime's seed.
GoMapOrder(keys, seed) == Permute(SortStrings(keys), seed)

\* The order in which a template's {{ range }} visits a map: text/template
\* sorts the keys, whatever the runtime's seed: strings byte-wise, structs
\* field by field.
RangeKeys(keys, seed) == SortStrings(keys)

RangeEndpointKeys(keys, seed) ==
    [i \in 1..Cardinality(keys) |->
        CHOOSE x \in keys : Cardinality({y \in keys : EndpointKeyLess(y, x)}) = i - 1]

RangeDefaultKeys(keys, seed) ==
    [i \in 1..Cardinality(keys) |->
        CHOOSE x \in keys : Cardinality({y \in keys : DefaultKeyLess(y, x)}) = i - 1]

(***************************************************************************)
(* Service-ID aggregation.                                                 *)
(***************************************************************************)
RECURSIVE InsertAll(_, _, _)
InsertAll(order, j, set) ==
    IF j > Len(order) THEN set
    ELSE InsertAll(order, j + 1, set \cup {order[j]})

RECURSIVE serviceSetLoop(_, _, _, _)
serviceSetLoop(ps, i, seed, set) ==
    IF i > Len(ps) THEN set
    ELSE serviceSetLoop(ps, i + 1, seed,
                        InsertAll(GoMapOrder(DOMAIN ps[i].Services, seed), 1, set))

RECURSIVE serviceSetResetLoop(_, _, _, _)
serviceSetResetLoop(ps, i, seed, set) ==
    IF i > Len(ps) THEN set
    ELSE serviceSetResetLoop(ps, i + 1, seed,
                             InsertAll(GoMapOrder(DOMAIN ps[i].Services, seed), 1, {}))

\* A serviceSet that makes a new set for every partition.
serviceSetPerPartition(ps, seed) == serviceSetResetLoop(ps, 1, seed, {})

serviceSet(ps, seed) == serviceSetLoop(ps, 1, seed, {})

(***************************************************************************)
(* Templates.  A template yields the fragments it wrote and the error that *)
(* stopped it ("" when it ran to its end).                                 *)
(***************************************************************************)
Wrote(frags) == [frags |-> frags, err |-> ""]
Abort(msg) == [frags |-> <<>>, err |-> msg]

\* The error text/template raises when a function of funcMap returns an
\* error: the place of the call in v3Tmpl (parse name "tmpl", line and byte
\* column counted from the opening quote of v3Tmpl), the name of the template
\* being executed, the text of the call, and the error of the function.
execError(location, name, context, fn, msg) ==
    "template: " \o location \o ": executing " \o Quote(name) \o " at <"
    \o context \o ">: error calling " \o fn \o ": " \o msg
Then(a, b) == IF a.err # "" THEN a ELSE [frags |-> a.frags \o b.frags, err |-> b.err]

\* {{ define "partition consts" }}
partitionConsts(ps) ==
    Frag("partition consts(", "// Partition identifiers\nconst (\n")
    \o [i \in 1..Len(ps) |->
          [site |-> "PartitionID",
           text |-> toSymbol(ps[i].ID) \o "PartitionID = " \o quoteString(ps[i].ID)
                    \o " // " \o ps[i].Name \o " partition.\n"]]
    \o Frag("partition consts)", ")")

\* {{ define "partition region consts" }}
partitionRegionConsts(p, seed) ==
    LET ids == RangeKeys(DOMAIN p.Regions, seed)
    IN Frag("partition region consts(",
            "// " \o p.Name \o " partition's regions.\nconst (\n")
       \o [i \in 1..Len(ids) |->
             [site |-> "RegionID",
              text |-> toSymbol(ids[i]) \o "RegionID = " \o quoteString(ids[i])
                       \o " // " \o p.Regions[ids[i]].Description \o ".\n"]]
       \o Frag("partition region consts)", ")")

\* A "service consts" that visits the service set in the order of Go's range
\* statement instead of the sorted order of the template's range.
serviceConstsUnsorted(ps, seed) ==
    LET ids == GoMapOrder(serviceSet(ps, seed), seed)
    IN Frag("service consts(", "// Service identifiers\nconst (\n")
       \o [i \in 1..Len(ids) |->
             [site |-> "ServiceID",
              text |-> toSymbol(ids[i]) \o "ServiceID = " \o quoteString(ids[i])
                       \o " // " \o toSymbol(ids[i]) \o ".\n"]]
       \o Frag("service consts)", ")")

\* {{ define "service consts" }}
serviceConsts(ps, seed) ==
    LET ids == RangeKeys(serviceSet(ps, seed), seed)
    IN Frag("service consts(", "// Service identifiers\nconst (\n")
       \o [i \in 1..Len(ids) |->
             [site |-> "ServiceID",
              text |-> toSymbol(ids[i]) \o "ServiceID = " \o quoteString(ids[i])
                       \o " // " \o toSymbol(ids[i]) \o ".\n"]]
       \o Frag("service consts)", ")")

\* {{ define "gocode RegionRegex" }}
gocodeRegionRegex(rr) ==
    Frag("regionRegex", "regionRegex{\nRegexp: func() *regexp.Regexp{\nreg, _ := regexp.Compile("
                        \o quoteString(rr) \o ")\nreturn reg\n}(),\n}")

\* {{ define "gocode Region" }}
gocodeRegion(r) ==
    Frag("region{", "region{\n")
    \o Frag("Description", stringIfSet("Description: %q,\n", r.Description))
    \o Frag("region}", "}")

RECURSIVE regionEntries(_, _, _)
regionEntries(regions, ids, i) ==
    IF i > Len(ids) THEN <<>>
    ELSE Frag("region id", "\"" \o ids[i] \o "\": ")
         \o gocodeRegion(regions[ids[i]])
         \o regionEntries(regions, ids, i + 1)

\* {{ define "gocode Regions" }}
gocodeRegions(regions, seed) ==
    Frag("regions{", "regions{\n")
    \o regionEntries(regions, RangeKeys(DOMAIN regions, seed), 1)
    \o Frag("regions}", "}")

RECURSIVE defaultsEntries(_, _, _)
defaultsEntries(defaults, keys, i) ==
    IF i > Len(keys) THEN Wrote(<<>>)
    ELSE LET key == defaultKeySetter(keys[i])
         IN IF key.err # ""
            THEN Abort(execError("tmpl:159:4", "gocode Defaults", "DefaultKeySetter $id",
                                 "DefaultKeySetter", key.err))
            ELSE Then(Wrote(Frag("DefaultKeySetter", key.s)
                            \o gocodeEndpoint(defaults[keys[i]])),
                      defaultsEntries(defaults, keys, i + 1))

\* {{ define "gocode Defaults" }}
gocodeDefaults(defaults, seed) ==
    Then(Wrote(Frag("endpointDefaults{", "endpointDefaults{\n")),
    Then(defaultsEntries(defaults, RangeDefaultKeys(DOMAIN defaults, seed), 1),
         Wrote(Frag("endpointDefaults}", "}"))))

RECURSIVE endpointsEntries(_, _, _)
endpointsEntries(endpoints, keys, i) ==
    IF i > Len(keys) THEN Wrote(<<>>)
    ELSE LET key == endpointKeySetter(keys[i])
         IN IF key.err # ""
            THEN Abort(execError("tmpl:167:4", "gocode Endpoints", "EndpointKeySetter $id",
                                 "EndpointKeySetter", key.err))
            ELSE Then(Wrote(Frag("EndpointKeySetter", key.s)
                            \o gocodeEndpoint(endpoints[keys[i]])),
                      endpointsEntries(endpoints, keys, i + 1))

\* {{ define "gocode Endpoints" }}
gocodeEndpoints(endpoints, seed) ==
    Then(Wrote(Frag("serviceEndpoints{", "serviceEndpoints{\n")),
    Then(endpointsEntries(endpoints, RangeEndpointKeys(DOMAIN endpoints, seed), 1),
         Wrote(Frag("serviceEndpoints}", "}"))))

\* {{ define "gocode Service" }}
gocodeService(svc, seed) ==
    Then(Wrote(Frag("service{", "service{\n")
               \o Frag("PartitionEndpoint",
                       stringIfSet("PartitionEndpoint: %q,\n", svc.PartitionEndpoint))
               \o Frag("IsRegionalized",
                       boxedBoolIfSet("IsRegionalized: %s,\n", svc.IsRegionalized))),
    Then(IF Cardinality(DOMAIN svc.Defaults) > 0
         THEN Then(Wrote(Frag("Defaults:", "Defaults: ")), gocodeDefaults(svc.Defaults, seed))
         ELSE Wrote(<<>>),
    Then(IF DOMAIN svc.Endpoints # {}
         THEN Then(Wrote(Frag("Endpoints:", "Endpoints: ")), gocodeEndpoints(svc.Endpoints, seed))
         ELSE Wrote(<<>>),
         Wrote(Frag("service}", "}")))))

RECURSIVE serviceEntries(_, _, _, _)
serviceEntries(services, ids, i, seed) ==
    IF i > Len(ids) THEN Wrote(<<>>)
    ELSE Then(Wrote(Frag("service id", "\"" \o ids[i] \o "\": ")),
         Then(gocodeService(services[ids[i]], seed),
              serviceEntries(services, ids, i + 1, seed)))

\* {{ define "gocode Services" }}
gocodeServices(services, seed) ==
    Then(Wrote(Frag("services{", "services{\n")),
    Then(serviceEntries(services, RangeKeys(DOMAIN services, seed), 1, seed),
         Wrote(Frag("services}", "}"))))

\* A "gocode Partition" that renders Regions and Services only when the map
\* is not empty, the way "gocode Service" renders Endpoints.
gocodePartitionGuarded(p, seed) ==
    Then(Wrote(Frag("partition{", "partition{\n")
               \o Frag("ID", stringIfSet("ID: %q,\n", p.ID))
               \o Frag("Name", stringIfSet("Name: %q,\n", p.Name))
               \o Frag("DNSSuffix", stringIfSet("DNSSuffix: %q,\n", p.DNSSuffix))
               \o Frag("RegionRegex:", "RegionRegex: ")
               \o gocodeRegionRegex(p.RegionRegex)),
    Then(IF Cardinality(DOMAIN p.Defaults) > 0
         THEN Then(Wrote(Frag("Defaults:", "Defaults: ")), gocodeDefaults(p.Defaults, seed))
         ELSE Wrote(<<>>),
    Then(IF DOMAIN p.Regions # {}
         THEN Wrote(Frag("Regions:", "Regions: ") \o gocodeRegions(p.Regions, seed))
         ELSE Wrote(<<>>),
    Then(IF DOMAIN p.Services # {}
         THEN Then(Wrote(Frag("Services:", "Services: ")), gocodeServices(p.Services, seed))
         ELSE Wrote(<<>>),
         Wrote(Frag("partition}", "}"))))))

\* {{ define "gocode Partition" }}
gocodePartition(p, seed) ==
    Then(Wrote(Frag("partition{", "partition{\n")
               \o Frag("ID", stringIfSet("ID: %q,\n", p.ID))
               \o Frag("Name", stringIfSet("Name: %q,\n", p.Name))
               \o Frag("DNSSuffix", stringIfSet("DNSSuffix: %q,\n", p.DNSSuffix))
               \o Frag("RegionRegex:", "RegionRegex: ")
               \o gocodeRegionRegex(p.RegionRegex)),
    Then(IF Cardinality(DOMAIN p.Defaults) > 0
         THEN Then(Wrote(Frag("Defaults:", "Defaults: ")), gocodeDefaults(p.Defaults, seed))
         ELSE Wrote(<<>>),
    Then(Wrote(Frag("Regions:", "Regions: ") \o gocodeRegions(p.Regions, seed)
               \o Frag("Services:", "Services: ")),
    Then(gocodeServices(p.Services, seed),
         Wrote(Frag("partition}", "}"))))))

\* {{ define "endpoint resolvers" }}, up to the list of the storage variables.
endpointResolversHead(ps) ==
    Frag("DefaultResolver",
         "// DefaultResolver returns an Endpoint resolver that will be able\n"
         \o "// to resolve endpoints for: " \o listPartitionNames(ps) \o ".\n"
         \o "func DefaultResolver() Resolver {\nreturn defaultPartitions\n}\n")
    \o Frag("DefaultPartitions",
            "// DefaultPartitions returns a list of the partitions the SDK is bundled\n"
            \o "// with. The available partitions are: " \o listPartitionNames(ps) \o ".\n"
            \o "func DefaultPartitions() []Partition {\nreturn defaultPartitions.Partitions()\n}\n")
    \o Frag("defaultPartitions{", "var defaultPartitions = partitions{\n")
    \o [i \in 1..Len(ps) |->
          [site |-> "defaultPartitions entry", text |-> partitionVarName(ps[i].ID)]]
    \o Frag("defaultPartitions}", "}")

\* {{ define "endpoint resolvers" }}, one turn of its second range: the
\* accessor function and the storage variable of one partition.
partitionResolver(p, seed) ==
    LET name == partitionGetter(p.ID)
    IN Then(Wrote(Frag("accessor comment",
                       "// " \o name \o " returns the Resolver for " \o p.Name \o ".\n")
                  \o Frag("accessor func", name)
                  \o Frag("accessor return", partitionVarName(p.ID))
                  \o Frag("storage var", partitionVarName(p.ID))),
            gocodePartition(p, seed))

(***************************************************************************)
(* The decoded models CodeGenModel is run on.                              *)
(***************************************************************************)
EmptyMap == <<>>

HostEndpoint ==
    [ZeroEndpoint EXCEPT !.Hostname = "{service}-fips.{region}.{dnsSuffix}"]

FullEndpoint ==
    [Hostname |-> "{service}.{region}.{dnsSuffix}", DNSSuffix |-> "amazonaws.com",
     SSLCommonName |-> "s3.amazonaws.com",
     Protocols |-> <<"http", "https">>, SignatureVersions |-> <<"v4">>,
     CredentialScope |-> [Region |-> "us-east-1", Service |-> ""],
     Deprecated |-> boxedTrue]

Key(region, variant) == [Region |-> region, Variant |-> variant]
DKey(variant) == [Variant |-> variant]

EmptyService ==
    [PartitionEndpoint |-> "", IsRegionalized |-> boxedBoolUnset,
     Defaults |-> EmptyMap, Endpoints |-> EmptyMap]

PlainService ==
    [PartitionEndpoint |-> "aws-global", IsRegionalized |-> boxedFalse,
     Defaults |-> (DKey(0) :> FullEndpoint @@ DKey(dualStackVariant) :> HostEndpoint),
     Endpoints |-> (Key("us-east-1", 0) :> ZeroEndpoint
                    @@ Key("us-east-1", fipsVariant) :> HostEndpoint
                    @@ Key("aws-global", BitOr(fipsVariant, dualStackVariant)) :> FullEndpoint)]

\* A service with an endpoint key whose variant is outside the known flags,
\* between two keys that are fine.
UnknownKeyService ==
    [PartitionEndpoint |-> "", IsRegionalized |-> boxedTrue,
     Defaults |-> EmptyMap,
     Endpoints |-> (Key("cn-north-1", 0) :> HostEndpoint
                    @@ Key("cn-north-1", 4) :> HostEndpoint
                    @@ Key("cn-northwest-1", 0) :> ZeroEndpoint)]

Region(description) == [Description |-> description]

PartitionBodies ==
    { \* no regions, no services
      [Defaults |-> EmptyMap, Regions |-> EmptyMap, Services |-> EmptyMap],
      [Defaults |-> (DKey(0) :> FullEndpoint @@ DKey(fipsVariant) :> HostEndpoint),
       Regions |-> ("us-east-1" :> Region("US East (N. Virginia)")
                    @@ "eu-west-1" :> Region("Europe (Ireland)")
                    @@ "aws-global" :> Region("")),
       Services |-> ("s3" :> PlainService @@ "ec2" :> EmptyService @@ "a4b" :> EmptyService)],
      \* an unknown variant among the endpoint keys of a service
      [Defaults |-> EmptyMap,
       Regions |-> ("cn-north-1" :> Region("China (Beijing)")),
       Services |-> ("s3" :> UnknownKeyService @@ "iam" :> PlainService
                     @@ "sts" :> EmptyService)],
      \* an unknown variant among the default keys of the partition
      [Defaults |-> (DKey(0) :> HostEndpoint @@ DKey(6) :> FullEndpoint),
       Regions |-> ("us-iso-east-1" :> Region("US ISO East")),
       Services |-> ("ec2" :> PlainService)] }

PartitionHeads ==
    { [ID |-> "aws", Name |-> "AWS Standard", DNSSuffix |-> "amazonaws.com",
       RegionRegex |-> "^(us|eu)\\-\\w+\\-\\d+$"],
      [ID |-> "aws-cn", Name |-> "AWS China", DNSSuffix |-> "amazonaws.com.cn",
       RegionRegex |-> "^cn\\-\\w+\\-\\d+$"],
      [ID |-> "aws-iso", Name |-> "AWS ISO (US)", DNSSuffix |-> "c2s.ic.gov",
       RegionRegex |-> "^us\\-iso\\-\\w+\\-\\d+$"] }

Partitions ==
    { [ID |-> h.ID, Name |-> h.Name, DNSSuffix |-> h.DNSSuffix, RegionRegex |-> h.RegionRegex,
       Defaults |-> b.Defaults, Regions |-> b.Regions, Services |-> b.Services]
      : h \in PartitionHeads, b \in PartitionBodies }

\* Resolvers of at most MaxPartitions partitions with distinct identifiers.
Resolvers ==
    { r \in SeqsUpTo(Partitions, MaxPartitions) :
        \A i, j \in 1..Len(r) : r[i].ID = r[j].ID => i = j }

Seeds == 0..MaxSeed

(***************************************************************************)
(* CodeGenModel.  DecodeModel has returned the Resolver without an error;  *)
(* each action below is one step of the "defaults" template writing to     *)
(* outFile.                                                                *)
(***************************************************************************)
Init ==
    /\ pc = "partition consts"
    /\ arg = ""
    /\ res = <<>>
    /\ resolver \in Resolvers
    /\ opts \in [DisableGenerateServiceIDs : BOOLEAN]
    /\ idx = 1
    /\ run = 1
    /\ out = <<>>
    /\ err = ""
    /\ prevOut = <<>>
    /\ prevErr = ""

\* {{ template "partition consts" $.Resolver }}
PartitionConsts ==
    /\ pc = "partition consts"
    /\ out' = out \o partitionConsts(resolver)
    /\ pc' = "partition region consts"
    /\ idx' = 1
    /\ UNCHANGED <<arg, res, resolver, opts, run, err, prevOut, prevErr>>

\* {{ range $_, $partition := $.Resolver }} {{ template "partition region consts" }}
PartitionRegionConsts ==
    /\ pc = "partition region consts"
    /\ idx <= Len(resolver)
    /\ \E seed \in Seeds : out' = out \o partitionRegionConsts(resolver[idx], seed)
    /\ idx' = idx + 1
    /\ UNCHANGED <<pc, arg, res, resolver, opts, run, err, prevOut, prevErr>>

\* {{ if not $.DisableGenerateServiceIDs }} {{ template "service consts" $.Resolver }}
ServiceConsts ==
    /\ pc = "partition region consts"
    /\ idx > Len(resolver)
    /\ ~opts.DisableGenerateServiceIDs
    /\ \E seed \in Seeds : out' = out \o serviceConsts(resolver, seed)
    /\ pc' = "endpoint resolvers"
    /\ UNCHANGED <<arg, res, resolver, opts, idx, run, err, prevOut, prevErr>>

SkipServiceConsts ==
    /\ pc = "partition region consts"
    /\ idx > Len(resolver)
    /\ opts.DisableGenerateServiceIDs
    /\ pc' = "endpoint resolvers"
    /\ UNCHANGED <<arg, res, resolver, opts, idx, run, out, err, prevOut, prevErr>>

\* {{ template "endpoint resolvers" $.Resolver }}: its head
EndpointResolvers ==
    /\ pc = "endpoint resolvers"
    /\ out' = out \o endpointResolversHead(resolver)
    /\ pc' = "partition resolvers"
    /\ idx' = 1
    /\ UNCHANGED <<arg, res, resolver, opts, run, err, prevOut, prevErr>>

\* One turn of the range over the partitions.  When a function called by
\* the template returns an error, ExecuteTemplate stops and returns it, and
\* CodeGenModel wraps and returns it.
PartitionResolver ==
    /\ pc = "partition resolvers"
    /\ idx <= Len(resolver)
    /\ \E seed \in Seeds :
          LET r == partitionResolver(resolver[idx], seed)
          IN /\ out' = out \o r.frags
             /\ IF r.err = ""
                THEN /\ idx' = idx + 1
                     /\ UNCHANGED <<pc, err>>
                ELSE /\ pc' = "failed"
                     /\ err' = Sprintf("failed to execute template, %v", r.err)
                     /\ UNCHANGED idx
    /\ UNCHANGED <<arg, res, resolver, opts, run, prevOut, prevErr>>

\* the template ran to its end: CodeGenModel returns nil
Return ==
    /\ pc = "partition resolvers"
    /\ idx > Len(resolver)
    /\ pc' = "done"
    /\ UNCHANGED <<arg, res, resolver, opts, idx, run, out, err, prevOut, prevErr>>

\* CodeGenModel is called again with the same model and the same options.
CallAgain ==
    /\ pc \in {"done", "failed"}
    /\ run = 1
    /\ run' = 2
    /\ prevOut' = out
    /\ prevErr' = err
    /\ out' = <<>>
    /\ err' = ""
    /\ idx' = 1
    /\ pc' = "partition consts"
    /\ UNCHANGED <<arg, res, resolver, opts>>

Next ==
    \/ PartitionConsts
    \/ PartitionRegionConsts
    \/ ServiceConsts
    \/ SkipServiceConsts
    \/ EndpointResolvers
    \/ PartitionResolver
    \/ Return
    \/ CallAgain

Spec == Init /\ [][Next]_vars

Returned == pc \in {"done", "failed"}

(***************************************************************************)
(* Properties of the generated text.                                       *)
(***************************************************************************)
\* The texts of the fragments a template site wrote, in the order written.
Texts(frags, site) ==
    LET at == SelectSeq(frags, LAMBDA f : f.site = site)
    IN [i \in 1..Len(at) |-> at[i].text]

\* The position in frags of the n-th fragment of a site.
Pos(frags, site, n) ==
    CHOOSE i \in 1..Len(frags) :
        /\ frags[i].site = site
        /\ Cardinality({j \in 1..(i - 1) : frags[j].site = site}) = n - 1

Sites(frags) == [i \in 1..Len(frags) |-> frags[i].site]

\* C4, as stated: the storage variable is named by the lower-cased name of
\* the accessor function.
StorageVarIsLowerCasedGetter ==
    \A i \in 1..Len(Texts(out, "storage var")) :
        Texts(out, "storage var")[i] = ToLower(Texts(out, "accessor func")[i])

\* C4, amended: the storage variable of a partition is named by the
\* lower-cased symbol of its id followed by "Partition", the accessor by the
\* symbol followed by "Partition", and the defaultPartitions list, the body
\* of the accessor and the declaration of the variable use the same name.
StorageVarNames ==
    LET listed == Texts(out, "defaultPartitions entry")
        declared == Texts(out, "storage var")
        returned == Texts(out, "accessor return")
        accessors == Texts(out, "accessor func")
    IN /\ pc \in {"partition resolvers", "done", "failed"} =>
             listed = [i \in 1..Len(resolver) |->
                          ToLower(toSymbol(resolver[i].ID)) \o "Partition"]
       /\ Len(declared) = Len(returned)
       /\ Len(declared) = Len(accessors)
       /\ \A i \in 1..Len(declared) :
             /\ declared[i] = listed[i]
             /\ returned[i] = listed[i]
             /\ accessors[i] = toSymbol(resolver[i].ID) \o "Partition"
       /\ pc = "done" => Len(declared) = Len(resolver)

WitnessStorageVarNames ==
    /\ pc = "done"
    /\ Len(resolver) = 2
    /\ resolver[2].ID = "aws-cn"
    /\ Texts(out, "storage var")[2] = "awscnPartition"
    /\ Texts(out, "accessor func")[2] = "AwsCnPartition"
    /\ Texts(out, "defaultPartitions entry")[2] = "awscnPartition"

\* C6: with DisableGenerateServiceIDs the output has no service-ID constant;
\* without it the output has one service-ID constant for each service id of
\* any partition, and no other.
AllServiceIds == UNION {DOMAIN resolver[i].Services : i \in 1..Len(resolver)}
ServiceConstOf(id) ==
    toSymbol(id) \o "ServiceID = \"" \o id \o "\" // " \o toSymbol(id) \o ".\n"
ServiceConstsOncePerId ==
    pc \in {"endpoint resolvers", "partition resolvers", "done", "failed"} =>
        LET decls == Texts(out, "ServiceID")
        IN /\ opts.DisableGenerateServiceIDs =>
                 /\ Len(decls) = 0
                 /\ Len(Texts(out, "service consts(")) = 0
           /\ ~opts.DisableGenerateServiceIDs =>
                 /\ \A id \in AllServiceIds :
                       Cardinality({i \in 1..Len(decls) : decls[i] = ServiceConstOf(id)}) = 1
                 /\ Len(decls) = Cardinality(AllServiceIds)
                 /\ Len(Texts(out, "service consts(")) = 1

WitnessSharedService ==
    /\ pc = "endpoint resolvers"
    /\ ~opts.DisableGenerateServiceIDs
    /\ Len(resolver) = 2
    /\ DOMAIN resolver[1].Services = {"s3", "ec2", "a4b"}
    /\ DOMAIN resolver[2].Services = {"s3", "iam", "sts"}
    /\ Texts(out, "ServiceID") =
           <<"A4bServiceID = \"a4b\" // A4b.\n", "Ec2ServiceID = \"ec2\" // Ec2.\n",
             "IamServiceID = \"iam\" // Iam.\n", "S3ServiceID = \"s3\" // S3.\n",
             "StsServiceID = \"sts\" // Sts.\n">>

\* C7: a variant outside {0,1,2,3} in an endpoint key or a default key stops
\* the rendering: CodeGenModel returns an error, never nil, and the last
\* fragment written is the one before the offending key.
UnknownVariant(keys) == \E k \in keys : k.Variant \notin 0..3
HasUnknownVariant(p) ==
    \/ UnknownVariant(DOMAIN p.Defaults)
    \/ \E id \in DOMAIN p.Services :
          \/ UnknownVariant(DOMAIN p.Services[id].Defaults)
          \/ UnknownVariant(DOMAIN p.Services[id].Endpoints)
KnownKeys(keys) == {k \in keys : k.Variant \in 0..3}
VariantLine(v) ==
    CASE v = 0 -> ""
      [] v = 1 -> "Variant: fipsVariant,\n"
      [] v = 2 -> "Variant: dualStackVariant,\n"
      [] v = 3 -> "Variant: fipsVariant|dualStackVariant,\n"
ServicesOf(r) == UNION {{r[i].Services[id] : id \in DOMAIN r[i].Services} : i \in 1..Len(r)}
AllEndpointKeys == UNION {DOMAIN svc.Endpoints : svc \in ServicesOf(resolver)}
AllDefaultKeys ==
    UNION {DOMAIN resolver[i].Defaults : i \in 1..Len(resolver)}
    \cup UNION {DOMAIN svc.Defaults : svc \in ServicesOf(resolver)}
\* What was written of the partition whose rendering failed.
FailedPartitionFrags == SubSeq(out, Pos(out, "storage var", idx) + 1, Len(out))
\* The first service, in the order of the ids, that has an unknown variant.
FailedServiceId ==
    LET bad == {id \in DOMAIN resolver[idx].Services :
                   \/ UnknownVariant(DOMAIN resolver[idx].Services[id].Defaults)
                   \/ UnknownVariant(DOMAIN resolver[idx].Services[id].Endpoints)}
    IN CHOOSE id \in bad : \A o \in bad \ {id} : StrLess(id, o)
NothingAfterOffendingKey ==
    LET p == resolver[idx]
        seg == FailedPartitionFrags
    IN IF UnknownVariant(DOMAIN p.Defaults)
       THEN /\ Len(Texts(seg, "DefaultKeySetter")) = Cardinality(KnownKeys(DOMAIN p.Defaults))
            /\ Len(Texts(seg, "Regions:")) = 0
            /\ Len(Texts(seg, "endpointDefaults}")) = 0
       ELSE LET sid == FailedServiceId
                svc == p.Services[sid]
                upTo == {id \in DOMAIN p.Services : id = sid \/ StrLess(id, sid)}
                ids == Texts(seg, "service id")
                svcSeg == SubSeq(seg, Pos(seg, "service id", Cardinality(upTo)), Len(seg))
                unknown == DOMAIN svc.Endpoints \ KnownKeys(DOMAIN svc.Endpoints)
                first == CHOOSE k \in unknown : \A o \in unknown \ {k} : EndpointKeyLess(k, o)
            IN /\ Len(ids) = Cardinality(upTo)
               /\ ids[Len(ids)] = "\"" \o sid \o "\": "
               /\ Len(Texts(svcSeg, "service}")) = 0
               /\ IF UnknownVariant(DOMAIN svc.Defaults)
                  THEN /\ Len(Texts(svcSeg, "DefaultKeySetter")) =
                              Cardinality(KnownKeys(DOMAIN svc.Defaults))
                       /\ Len(Texts(svcSeg, "Endpoints:")) = 0
                  ELSE /\ Len(Texts(svcSeg, "EndpointKeySetter")) =
                              Cardinality({k \in DOMAIN svc.Endpoints : EndpointKeyLess(k, first)})
                       /\ Len(Texts(svcSeg, "serviceEndpoints}")) = 0
UnknownVariantAborts ==
    /\ pc = "done" =>
          /\ err = ""
          /\ \A i \in 1..Len(resolver) : ~HasUnknownVariant(resolver[i])
    /\ pc = "failed" =>
          /\ err # ""
          /\ HasUnknownVariant(resolver[idx])
          /\ \A i \in 1..(idx - 1) : ~HasUnknownVariant(resolver[i])
          /\ out[Len(out)].site \in {"endpointDefaults{", "serviceEndpoints{", "endpoint}"}
          /\ Len(Texts(out, "accessor func")) = idx
          /\ Len(Texts(out, "storage var")) = idx
          /\ Len(Texts(out, "partition}")) = idx - 1
          /\ NothingAfterOffendingKey
    /\ \A i \in 1..Len(out) :
          /\ out[i].site = "EndpointKeySetter" =>
                \E k \in KnownKeys(AllEndpointKeys) :
                    out[i].text = "endpointKey{\nRegion: \"" \o k.Region \o "\",\n"
                                  \o VariantLine(k.Variant) \o "}"
          /\ out[i].site = "DefaultKeySetter" =>
                \E k \in KnownKeys(AllDefaultKeys) :
                    out[i].text = "defaultKey{\n" \o VariantLine(k.Variant) \o "}"
    /\ (pc \in {"partition resolvers", "done"} /\ idx > 1) =>
          ~HasUnknownVariant(resolver[idx - 1])

WitnessAbortAtEndpointKey ==
    /\ pc = "failed"
    /\ idx = 2
    /\ Len(resolver) = 2
    /\ "s3" \in DOMAIN resolver[2].Services
    /\ UnknownVariant(DOMAIN resolver[2].Services["s3"].Endpoints)
    /\ out[Len(out)].site = "endpoint}"
    /\ Len(Texts(out, "EndpointKeySetter")) > 0
    /\ "endpointKey{\nRegion: \"cn-northwest-1\",\n}" \notin
           {out[i].text : i \in 1..Len(out)}

\* C8: a second run of CodeGenModel over the same Resolver and options
\* writes the same text as the first, fragment by fragment, and returns the
\* same error, whatever order the maps are iterated in.
SecondRunIsIdentical ==
    run = 2 =>
        /\ Len(out) <= Len(prevOut)
        /\ out = SubSeq(prevOut, 1, Len(out))
        /\ Returned => (out = prevOut /\ err = prevErr)

WitnessSecondRun ==
    /\ run = 2
    /\ pc = "done"
    /\ Len(resolver) = 2
    /\ Cardinality(DOMAIN resolver[1].Regions) = 3
    /\ Cardinality(DOMAIN resolver[2].Services) = 3
    /\ out = prevOut
    /\ Len(out) > 40

\* C10: a finished rendering holds, for the partitions in the order of the
\* Resolver, one entry of defaultPartitions, one block of region constants,
\* one accessor function and one storage variable each; a partition without
\* regions and services is rendered with empty regions and services.
EmptyPartitionSites ==
    <<"partition{", "ID", "Name", "DNSSuffix", "RegionRegex:", "regionRegex",
      "Regions:", "regions{", "regions}", "Services:", "services{", "services}",
      "partition}">>
OnePerPartitionInOrder ==
    pc = "done" =>
        LET n == Len(resolver)
        IN /\ err = ""
           /\ Texts(out, "accessor func") =
                  [i \in 1..n |-> toSymbol(resolver[i].ID) \o "Partition"]
           /\ Texts(out, "storage var") =
                  [i \in 1..n |-> ToLower(toSymbol(resolver[i].ID)) \o "Partition"]
           /\ Texts(out, "defaultPartitions entry") = Texts(out, "storage var")
           /\ Texts(out, "partition region consts(") =
                  [i \in 1..n |-> "// " \o resolver[i].Name \o " partition's regions.\nconst (\n"]
           /\ Texts(out, "ID") = [i \in 1..n |-> "ID: \"" \o resolver[i].ID \o "\",\n"]
           /\ Len(Texts(out, "partition}")) = n
           /\ \A i \in 1..n :
                 /\ Pos(out, "accessor func", i) < Pos(out, "storage var", i)
                 /\ Pos(out, "storage var", i) < Pos(out, "partition}", i)
                 /\ i < n => Pos(out, "partition}", i) < Pos(out, "accessor func", i + 1)
                 /\ (DOMAIN resolver[i].Regions = {} /\ DOMAIN resolver[i].Services = {}
                     /\ DOMAIN resolver[i].Defaults = {}) =>
                        Sites(SubSeq(out, Pos(out, "storage var", i) + 1,
                                     Pos(out, "partition}", i))) = EmptyPartitionSites

WitnessEmptyPartition ==
    /\ pc = "done"
    /\ Len(resolver) = 2
    /\ resolver[1].ID = "aws-iso"
    /\ resolver[2].ID = "aws"
    /\ DOMAIN resolver[2].Regions = {}
    /\ DOMAIN resolver[2].Services = {}
    /\ DOMAIN resolver[1].Services # {}
    /\ Texts(out, "accessor func") = <<"AwsIsoPartition", "AwsPartition">>
====
